---- MODULE Spec2Model ----
(***************************************************************************)
(* A model of the zcstring crate (src/src/lib.rs): ZCString views over     *)
(* reference-counted ArcStr buffers, the address-arithmetic provenance     *)
(* check (source_of / from_substr), the thread-local SOURCE slot with its  *)
(* SourceGuard, the serde visitor, and the iterator wrapper.               *)
(*                                                                         *)
(* Memory is a row of heap slots.  Slot b, when live, holds one buffer     *)
(* whose text starts at address Base(b).  A view (ZCString) is a           *)
(* (slot, start, len) triple that owns one reference of its slot; a        *)
(* candidate (&str) is a (slot, off, len) triple that owns nothing.        *)
(***************************************************************************)
EXTENDS Naturals, Integers, Sequences, FiniteSets, TLC

\* ------------------------------------------------------------- bounds ---
MaxLen == 3          \* longest buffer text, in bytes
MaxDepth == 2        \* live guards per thread
NRegs == 2           \* view variables the program holds
MaxFrags == 2        \* fragments a wrapped iterator produces
NSlots == 3          \* heap slots an allocation can land in
NThreads == 2        \* threads, each with its own SOURCE slot
MaxPos == 4          \* the largest stream position, standing for u64::MAX

Bytes == {"a", "b"}
Slots == 1..NSlots
Threads == 1..NThreads

\* ------------------------------------------------------------- memory ---
\* Address of the first text byte of the buffer in slot b.  An ArcStr keeps
\* its length and reference count in a header in front of the text, so the
\* texts of two buffers are never adjacent: one byte of gap stands for it.
Base(b) == (b - 1) * (MaxLen + 1) + 1

RECURSIVE TextsOfLen(_)
TextsOfLen(n) ==
    IF n = 0 THEN {<< >>}
    ELSE {Append(t, c) : t \in TextsOfLen(n - 1), c \in Bytes}

Texts == UNION {TextsOfLen(n) : n \in 0..MaxLen}

FreeSlot == [live |-> FALSE, text |-> << >>, rc |-> 0]

\* ZCString(Substr): the buffer it references and the byte range in it.
View(b, st, n) == [slot |-> b, start |-> st, len |-> n]

\* Option::None for an Option<ZCString>.
None == View(0, 0, 0)

\* &str: a pointer and a length; it borrows, it holds no reference.
Str(b, o, n) == [slot |-> b, off |-> o, len |-> n]

\* Substr::as_ptr / str::as_ptr
as_ptr(v) == Base(v.slot) + v.start
str_ptr(s) == Base(s.slot) + s.off

\* Deref to str: the text a view addresses, and the text of a candidate.
as_str(h, v) == SubSeq(h[v.slot].text, v.start + 1, v.start + v.len)
str_text(h, s) == SubSeq(h[s.slot].text, s.off + 1, s.off + s.len)

\* The &str a view derefs to (same storage, same bytes).
str_of(v) == Str(v.slot, v.start, v.len)

\* usize::checked_sub: -1 stands for Option::None
checked_sub(a, b) == IF a >= b THEN a - b ELSE -1

\* --------------------------------------------------------------- state ---
VARIABLES
    heap,       \* [Slots -> buffer]: live flag, text, reference count
    SOURCE,     \* [Threads -> view or None]: the thread_local SOURCE
    V,          \* the view a provenance operation is called on
    s,          \* the candidate &str handed to it
    res,        \* outcome of the last operation
    guards,     \* [Threads -> sequence of live SourceGuards, oldest first]
    mode,       \* [Threads -> "run" or "unwind"]: is a panic unwinding?
    ret,        \* [Threads -> what the last with_source call returned]
    regs,       \* [Regs -> view or None]: the views the program holds
    det,        \* the first detach() made: its register, source, result, text
    iter,       \* the live ZCStringIterWrapper: source, fragments, position
    yielded,    \* how many views the wrapper has yielded
    stream,     \* the Read + Seek input: its bytes and its position
    req,        \* the range read_range is asked for
    rd          \* outcome of the last read_range / read call

ctlVars == <<guards, mode, ret>>
auxVars == <<regs, det, iter, yielded>>
ioVars == <<stream, req, rd>>
vars == <<heap, SOURCE, V, s, res, guards, mode, ret, regs, det, iter, yielded,
          stream, req, rd>>

\* ----------------------------------------------------- reference counts ---
FreeSlots(h) == {b \in Slots : ~h[b].live}

\* ArcStr::from(&str): a new buffer in free slot b holding a copy of text.
Alloc(h, b, text) == [h EXCEPT ![b] = [live |-> TRUE, text |-> text, rc |-> 1]]

\* Clone of a view: one more reference to its buffer.
Retain(h, v) ==
    IF v = None THEN h ELSE [h EXCEPT ![v.slot].rc = @ + 1]

\* Drop of a view: one reference less; the last one deallocates the buffer.
Release(h, v) ==
    IF v = None THEN h
    ELSE IF h[v.slot].rc = 1 THEN [h EXCEPT ![v.slot] = FreeSlot]
    ELSE [h EXCEPT ![v.slot].rc = @ - 1]

\* ------------------------------------------------------ operation results ---
\* What an operation produced: a boolean (source_of), a view, or a panic.
NoRes == [op |-> "none", ok |-> FALSE, view |-> None, panic |-> FALSE, thread |-> 0]
BoolRes(o, b) == [NoRes EXCEPT !.op = o, !.ok = b]
ViewRes(o, v) == [NoRes EXCEPT !.op = o, !.ok = TRUE, !.view = v]
PanicRes(o) == [NoRes EXCEPT !.op = o, !.panic = TRUE]

\* ------------------------------------------------------------ ZCString ---
\* ZCString::source_of: offset = s.as_ptr() - self.as_ptr(), checked;
\* Some(offset) => offset < self.len(), None => false.
source_of(v, c) ==
    LET offset == checked_sub(str_ptr(c), as_ptr(v))
    IN  IF offset # -1 THEN offset < v.len ELSE FALSE

\* A substr that does not check the end of the range against the view.
substr_unchecked(h, v, lo, hi) ==
    IF lo <= hi
    THEN LET w == View(v.slot, v.start + lo, hi - lo)
         IN  <<ViewRes("substr", w), Retain(h, w)>>
    ELSE <<PanicRes("substr"), h>>

\* Substr::substr(lo..hi) behind ZCString::substr: a view of the same
\* buffer (one more reference), or a panic when the range is inverted or
\* reaches past the end of the view.  Yields <<result, heap>>.
substr(h, v, lo, hi) ==
    IF lo <= hi /\ hi <= v.len
    THEN LET w == View(v.slot, v.start + lo, hi - lo)
         IN  <<ViewRes("substr", w), Retain(h, w)>>
    ELSE <<PanicRes("substr"), h>>

\* ZCString::from_str_without_source: always a new ArcStr, in free slot b.
from_str_without_source(h, c, b) ==
    <<ViewRes("alloc", View(b, 0, c.len)), Alloc(h, b, str_text(h, c))>>

\* from_substr without the upper bound on the offset.
from_substr_unbounded(h, v, c, b) ==
    LET offset == checked_sub(str_ptr(c), as_ptr(v))
    IN  IF offset # -1
        THEN substr(h, v, offset, offset + c.len)
        ELSE from_str_without_source(h, c, b)

\* ZCString::from_substr: Some(offset) if offset < self.len() =>
\* self.substr(offset..offset + s.len()), otherwise allocate (in slot b).
from_substr(h, v, c, b) ==
    LET offset == checked_sub(str_ptr(c), as_ptr(v))
    IN  IF offset # -1 /\ offset < v.len
        THEN substr(h, v, offset, offset + c.len)
        ELSE from_str_without_source(h, c, b)

\* A detach that hands back another view of the same buffer.
detach_alias(h, v, b) == <<ViewRes("alloc", v), Retain(h, v)>>

\* ZCString::detach: from_str_without_source(self.as_str()), in free slot b.
detach(h, v, b) == from_str_without_source(h, str_of(v), b)

\* ZCString::from_str_with_source on a thread whose SOURCE holds src.
from_str_with_source(h, src, c, b) ==
    IF src # None THEN from_substr(h, src, c, b)
    ELSE from_str_without_source(h, c, b)

\* ------------------------------------------------- SOURCE and its guard ---
\* A SourceGuard: old_source is its field; prev and installed remember, for
\* the properties only, the SOURCE value before the guard was created and
\* the view it installed; outcome is used by with_source frames.
Guard(old, prev, inst) ==
    [old_source |-> old, prev |-> prev, installed |-> inst, kind |-> "guard",
     outcome |-> "pending"]

NoGuards == [t \in Threads |-> << >>]
Running == [t \in Threads |-> "run"]
NoRet == [t \in Threads |-> "none"]

\* The view variables of the program, all unset.
Regs == 1..NRegs
NoRegs == [r \in Regs |-> None]

\* No detach() made yet.
NoDet == [reg |-> 0, src |-> None, view |-> None, text |-> << >>]

\* No iterator wrapper alive.
NoIter == [source |-> None, frags |-> << >>, pos |-> 0]

\* A bound of a RangeBounds<u64>: Included(pos), Excluded(pos) or Unbounded.
Bound(k, p) == [kind |-> k, pos |-> p]
Unbounded == Bound("Unbounded", 0)

\* No input stream, no requested range, no read made.
NoStream == [data |-> << >>, pos |-> 0]
NoReq == [sb |-> Unbounded, eb |-> Unbounded]
NoRd == [op |-> "none", kind |-> "none", failed |-> FALSE, view |-> None,
         consumed |-> 0, io |-> "none", nstart |-> 0, nend |-> 0]

\* A SOURCE that is one slot shared by every thread.
swap_source_shared(src, t, new) == <<[u \in Threads |-> new], src[t]>>

\* SOURCE.with(|ctx| mem::swap(&mut *ctx.borrow_mut(), &mut new)) run on
\* thread t: the thread's own slot takes new; yields <<SOURCE, old value>>.
swap_source(src, t, new) == <<[src EXCEPT ![t] = new], src[t]>>

\* A get_source_guard that installs v itself, without taking a reference.
get_source_guard_borrowed(h, src, t, v) ==
    LET sw == swap_source(src, t, v)
    IN  [heap |-> h, SOURCE |-> sw[1], guard |-> Guard(sw[2], src[t], v)]

\* ZCString::get_source_guard on thread t: a clone of v is swapped into the
\* slot and the previous value goes into the guard.
get_source_guard(h, src, t, v) ==
    LET sw == swap_source(src, t, v)
    IN  [heap |-> Retain(h, v), SOURCE |-> sw[1],
         guard |-> Guard(sw[2], src[t], v)]

\* A drop that empties the slot instead of restoring the saved value.
drop_guard_clear(h, src, t, g) ==
    [heap |-> Release(Release(h, src[t]), g.old_source),
     SOURCE |-> [src EXCEPT ![t] = None]]

\* impl Drop for SourceGuard on thread t: old_source is swapped back into
\* the slot; the value swapped out is dropped with the guard.
drop_guard(h, src, t, g) ==
    LET sw == swap_source(src, t, g.old_source)
    IN  [heap |-> Release(h, sw[2]), SOURCE |-> sw[1]]

\* Unwinding that forgets the guard instead of dropping it.
unwind_guard_leak(h, src, t, g) == [heap |-> h, SOURCE |-> src]

\* A panic unwinding through with_source: guard is a local of with_source,
\* so it is dropped as the frame is unwound.
unwind_guard(h, src, t, g) == drop_guard(h, src, t, g)

\* ---------------------------------------------------------- serde visitor ---
\* A visitor that copies borrowed strings too.
visit_borrowed_str_copy(h, src, c, b) == from_str_without_source(h, c, b)

\* ZCStringVisitor::visit_borrowed_str: resolve against the thread's SOURCE.
visit_borrowed_str(h, src, c, b) == from_str_with_source(h, src, c, b)

\* ZCStringVisitor::visit_str: always a new buffer, whatever SOURCE holds.
visit_str(h, src, c, b) == from_str_without_source(h, c, b)

\* ZCStringVisitor::visit_string: self.visit_str(s.as_str())
visit_string(h, src, c, b) == visit_str(h, src, c, b)

\* The innermost live guard of thread t.
Top(t) == guards[t][Len(guards[t])]

\* Thread t is running user code: at top level, or inside the operation of
\* its innermost with_source call.
InOperation(t) ==
    /\ mode[t] = "run"
    /\ guards[t] # << >> => Top(t).outcome = "pending"

\* --------------------------------------------- provenance specification ---
\* Every view of a buffer of length n, and every &str inside slot b.
ViewsOf(b, n) == {View(b, st, k) : st \in 0..n, k \in 0..n} \cap
                 {View(b, n - e - k, k) : e \in 0..n, k \in 0..n}
StrsOf(b, n) == {str_of(w) : w \in ViewsOf(b, n)}

\* Slot vb holds the buffer V views; the other of slots 1 and 2 holds
\* unrelated text (another buffer, a String, a decoder's scratch space),
\* below or above V's buffer in memory.  The candidate is any string slice
\* of either.  A root view of each keeps it alive, V is one more reference
\* of its buffer, and so is the SOURCE of a thread that has V installed.
ForeignText == <<"b", "a">>

ProvInit ==
    /\ \E vb \in {1, 2}, t1 \in Texts :
         \E v \in ViewsOf(vb, Len(t1)) :
           \E c \in StrsOf(vb, Len(t1)) \cup StrsOf(3 - vb, Len(ForeignText)) :
             \E src \in [Threads -> {None, v}] :
               /\ V = v
               /\ s = c
               /\ SOURCE = src
               /\ heap = [b \in Slots |->
                            IF b = vb THEN [live |-> TRUE, text |-> t1,
                                            rc |-> 2 + Cardinality({t \in Threads : src[t] # None})]
                            ELSE IF b = 3 - vb THEN [live |-> TRUE, text |-> ForeignText, rc |-> 1]
                            ELSE FreeSlot]
    /\ res = NoRes
    /\ guards = NoGuards
    /\ mode = Running
    /\ ret = NoRet
    /\ regs = NoRegs
    /\ det = NoDet
    /\ iter = NoIter
    /\ yielded = 0
    /\ stream = NoStream
    /\ req = NoReq
    /\ rd = NoRd

\* root.source_of(s)
SourceOf ==
    /\ res = NoRes
    /\ res' = BoolRes("source_of", source_of(V, s))
    /\ UNCHANGED <<heap, SOURCE, V, s, ctlVars, auxVars, ioVars>>

\* root.from_substr(s)
FromSubstr ==
    /\ res = NoRes
    /\ \E b \in FreeSlots(heap) :
         LET r == from_substr(heap, V, s, b)
         IN  /\ res' = [r[1] EXCEPT !.op = "from_substr"]
             /\ heap' = r[2]
    /\ UNCHANGED <<SOURCE, V, s, ctlVars, auxVars, ioVars>>

\* ZCString::from_str_with_source(s) on thread t; a panic inside it starts
\* unwinding the thread.
FromStrWithSource(t) ==
    /\ res = NoRes
    /\ InOperation(t)
    /\ \E b \in FreeSlots(heap) :
         LET r == from_str_with_source(heap, SOURCE[t], s, b)
         IN  /\ res' = [r[1] EXCEPT !.op = "from_str_with_source", !.thread = t]
             /\ heap' = r[2]
             /\ mode' = IF r[1].panic /\ guards[t] # << >>
                        THEN [mode EXCEPT ![t] = "unwind"] ELSE mode
    /\ UNCHANGED <<SOURCE, V, s, guards, ret, auxVars, ioVars>>

ProvNext ==
    \/ SourceOf
    \/ FromSubstr
    \/ \E t \in Threads : FromStrWithSource(t)

SpecProv == ProvInit /\ [][ProvNext]_vars

\* ------------------------------------------------- provenance properties ---
\* offset of the candidate's first byte from V's first byte; negative when
\* the candidate starts below V.
OffsetIn(v, c) == str_ptr(c) - as_ptr(v)

\* The candidate starts at one of V's bytes.
StartsInside(v, c) == OffsetIn(v, c) >= 0 /\ OffsetIn(v, c) < v.len

\* The candidate ends past V's last byte.
EndsPast(v, c) == OffsetIn(v, c) + c.len > v.len

\* The candidate is a sub-range of V's own text: &V[i..j] with i <= j <= len.
SubRange(v, c) ==
    /\ c.slot = v.slot
    /\ OffsetIn(v, c) >= 0
    /\ OffsetIn(v, c) + c.len <= v.len

\* The contained range of section 4.3: the offset lies within V's length and
\* the candidate ends no later than V.
Contained(v, c) == StartsInside(v, c) /\ ~EndsPast(v, c)

\* The candidate is not derived from V's text: it lies below V's start, at
\* or after V's end, or in another buffer.
NotDerived(v, c) ==
    \/ c.slot # v.slot
    \/ OffsetIn(v, c) < 0
    \/ OffsetIn(v, c) >= v.len

\* The view res.view is the zero-copy sub-view of V holding exactly c's bytes.
ZeroCopyOf(v, c, w) ==
    /\ w.slot = v.slot
    /\ w.start = c.off
    /\ w.len = c.len

\* The view w sits alone in a buffer that neither V nor the candidate uses,
\* and holds a copy of the candidate's text.
FreshCopyOf(h, v, c, w) ==
    /\ w.slot # v.slot
    /\ w.slot # c.slot
    /\ h[w.slot].live
    /\ h[w.slot].rc = 1
    /\ as_str(h, w) = str_text(h, c)

\* C1: a candidate that starts inside V and ends past V's end is rejected by
\* source_of.
C1_EndBoundRejected ==
    (res.op = "source_of" /\ StartsInside(V, s) /\ EndsPast(V, s))
        => res.ok = FALSE

\* C2: for a candidate that is a sub-range of V's text (empty ones, the empty
\* one at V's end and an empty V included) source_of answers true and
\* from_substr returns a view of V's buffer addressing exactly those bytes.
C2_ContainmentSound ==
    SubRange(V, s) =>
        /\ res.op = "source_of" => res.ok = TRUE
        /\ res.op = "from_substr" =>
              ~res.panic /\ ZeroCopyOf(V, s, res.view)

\* C3: from_substr always returns a view, never panics; the view's text is
\* the candidate's; it is the zero-copy sub-view when the candidate is
\* contained in V and a fresh copy otherwise.
C3_FromSubstrTotal ==
    res.op = "from_substr" =>
        /\ ~res.panic
        /\ as_str(heap, res.view) = str_text(heap, s)
        /\ Contained(V, s) => ZeroCopyOf(V, s, res.view)
        /\ ~Contained(V, s) => FreshCopyOf(heap, V, s, res.view)

\* C4: for a candidate not derived from V's text, from_substr on V, and
\* from_str_with_source on a thread whose SOURCE is V or empty, return a
\* fresh copy: a new buffer, equal text, not V's buffer.
C4_NonContainment ==
    (NotDerived(V, s) /\ res.op \in {"from_substr", "from_str_with_source"})
        => ~res.panic /\ FreshCopyOf(heap, V, s, res.view)

\* C4 witness: from_substr on a non-empty V was handed a non-empty slice of
\* V's own buffer lying at or after V's end, and returned a view.
C4_Witness ==
    /\ res.op = "from_substr"
    /\ s.slot = V.slot
    /\ s.len > 0
    /\ OffsetIn(V, s) >= V.len
    /\ V.len > 0
    /\ res.view # None

\* --------------------------------------------------- guard specification ---
\* The text of the root buffer: MaxLen bytes, alternating.
RootText == [i \in 1..MaxLen |-> IF i % 2 = 1 THEN "a" ELSE "b"]

\* The views guards install: the whole root buffer and its proper prefix.
GuardViews == {View(1, 0, MaxLen), View(1, 0, MaxLen - 1)}

\* Slot 1 holds the root buffer and slot 2 foreign text, each kept alive by
\* its owner; every SOURCE starts empty (const { RefCell::new(None) }).
GuardInit ==
    /\ heap = [b \in Slots |->
                 IF b = 1 THEN [live |-> TRUE, text |-> RootText, rc |-> 1]
                 ELSE IF b = 2 THEN [live |-> TRUE, text |-> ForeignText, rc |-> 1]
                 ELSE FreeSlot]
    /\ SOURCE = [t \in Threads |-> None]
    /\ V = View(1, 0, MaxLen)
    /\ s \in StrsOf(1, MaxLen) \cup StrsOf(2, Len(ForeignText))
    /\ res = NoRes
    /\ guards = NoGuards
    /\ mode = Running
    /\ ret = NoRet
    /\ regs = NoRegs
    /\ det = NoDet
    /\ iter = NoIter
    /\ yielded = 0
    /\ stream = NoStream
    /\ req = NoReq
    /\ rd = NoRd

\* let g = v.get_source_guard() on thread t
GetSourceGuard(t) ==
    /\ mode[t] = "run"
    /\ Len(guards[t]) < MaxDepth
    /\ \E v \in GuardViews :
         LET r == get_source_guard(heap, SOURCE, t, v)
         IN  /\ heap' = r.heap
             /\ SOURCE' = r.SOURCE
             /\ guards' = [guards EXCEPT ![t] = Append(@, r.guard)]
    /\ UNCHANGED <<V, s, res, mode, ret, auxVars, ioVars>>

\* The innermost live guard of thread t leaves scope, on the normal path or
\* while a panic unwinds; unwinding ends with the last guard.
DropInner(t) ==
    /\ guards[t] # << >>
    /\ LET g == guards[t][Len(guards[t])]
           r == drop_guard(heap, SOURCE, t, g)
       IN  /\ heap' = r.heap
           /\ SOURCE' = r.SOURCE
    /\ guards' = [guards EXCEPT ![t] = SubSeq(@, 1, Len(@) - 1)]
    /\ mode' = IF Len(guards[t]) = 1 THEN [mode EXCEPT ![t] = "run"] ELSE mode
    /\ UNCHANGED <<V, s, res, ret, auxVars, ioVars>>

\* The caller lets go of the last result.
DropResult ==
    /\ res # NoRes
    /\ heap' = Release(heap, res.view)
    /\ res' = NoRes
    /\ UNCHANGED <<SOURCE, V, s, ctlVars, auxVars, ioVars>>

GuardNext ==
    \/ \E t \in Threads : GetSourceGuard(t)
    \/ \E t \in Threads : DropInner(t)
    \/ \E t \in Threads : FromStrWithSource(t)
    \/ DropResult

SpecGuard == GuardInit /\ [][GuardNext]_vars

\* What thread t's own guard operations make its context: the view of its
\* innermost live guard, or the initial empty value.
OwnContext(t) ==
    IF guards[t] = << >> THEN None ELSE guards[t][Len(guards[t])].installed

\* C5: dropping the innermost guard puts back exactly the value SOURCE held
\* before that guard was created (so two nested guards restore inner-first to
\* the outer's view, then to the original value), and while a guard is the
\* innermost live one SOURCE holds the view it installed.
C5_GuardRestoresLIFO ==
    /\ [](\A t \in Threads :
            guards[t] # << >> => SOURCE[t] = guards[t][Len(guards[t])].installed)
    /\ [][\A t \in Threads :
            DropInner(t) => SOURCE'[t] = guards[t][Len(guards[t])].prev]_vars

\* C5 witness: a thread holds two nested guards with different views, the
\* outer one created over an empty context.
C5_Witness ==
    \E t \in Threads :
        /\ Len(guards[t]) = 2
        /\ guards[t][1].prev = None
        /\ guards[t][1].installed # guards[t][2].installed
        /\ guards[t][2].prev = guards[t][1].installed

\* A step of thread t: creating a guard, dropping one, resolving a string.
ThreadStep(t) == GetSourceGuard(t) \/ DropInner(t) \/ FromStrWithSource(t)

\* C7: a step of one thread leaves every other thread's SOURCE as it was, so
\* each SOURCE is what its own thread's guards made it, and
\* from_str_with_source on a thread resolves against that.
C7_ThreadIsolation ==
    /\ [][\A t \in Threads :
            ThreadStep(t) => \A u \in Threads \ {t} : SOURCE'[u] = SOURCE[u]]_vars
    /\ [](\A t \in Threads : SOURCE[t] = OwnContext(t))
    /\ [][\A t \in Threads :
            FromStrWithSource(t) =>
                \E b \in FreeSlots(heap) :
                    res'.view = from_str_with_source(heap, OwnContext(t), s, b)[1].view]_vars

\* C7 witness: two threads have different views installed at the same time
\* and one of them has resolved a string against its own.
C7_Witness ==
    /\ \E t, u \in Threads :
         /\ t # u
         /\ SOURCE[t] # None
         /\ SOURCE[u] # None
         /\ SOURCE[t] # SOURCE[u]
         /\ res.op = "from_str_with_source"
         /\ res.thread = t
         /\ res.view.slot = SOURCE[t].slot

\* --------------------------------------------- with_source specification ---
\* ZCString::with_source(source, f) is entered on thread t (kind
\* "with_source"), or serde_json_from_zcstring(json), which is with_source
\* around serde_json::from_str (kind "decode").  The caller hands over a view
\* of its own; the guard installs a clone of it.
WithSourceEnter(t) ==
    /\ InOperation(t)
    /\ Len(guards[t]) < MaxDepth
    /\ \E v \in GuardViews, k \in {"with_source", "decode"} :
         LET r == get_source_guard(Retain(heap, v), SOURCE, t, v)
         IN  /\ heap' = r.heap
             /\ SOURCE' = r.SOURCE
             /\ guards' = [guards EXCEPT ![t] = Append(@, [r.guard EXCEPT !.kind = k])]
    /\ UNCHANGED <<V, s, res, mode, ret, auxVars, ioVars>>

\* The operation f(source) returns a value: success, or a failure value such
\* as a decode error.  It has consumed source.
OpReturn(t) ==
    /\ InOperation(t)
    /\ guards[t] # << >>
    /\ \E r \in {"ok", "err"} :
         guards' = [guards EXCEPT ![t][Len(guards[t])].outcome = r]
    /\ heap' = Release(heap, Top(t).installed)
    /\ UNCHANGED <<SOURCE, V, s, res, mode, ret, auxVars, ioVars>>

\* The operation panics.
OpPanic(t) ==
    /\ InOperation(t)
    /\ guards[t] # << >>
    /\ mode' = [mode EXCEPT ![t] = "unwind"]
    /\ UNCHANGED <<heap, SOURCE, V, s, res, guards, ret, auxVars, ioVars>>

\* drop(guard); result
WithSourceExit(t) ==
    /\ mode[t] = "run"
    /\ guards[t] # << >>
    /\ Top(t).outcome # "pending"
    /\ LET r == drop_guard(heap, SOURCE, t, Top(t))
       IN  /\ heap' = r.heap
           /\ SOURCE' = r.SOURCE
    /\ ret' = [ret EXCEPT ![t] = Top(t).outcome]
    /\ guards' = [guards EXCEPT ![t] = SubSeq(@, 1, Len(@) - 1)]
    /\ UNCHANGED <<V, s, res, mode, auxVars, ioVars>>

\* The panic unwinds the innermost with_source frame: the operation's source
\* and the guard are dropped.  Past the outermost frame the panic is caught.
Unwind(t) ==
    /\ mode[t] = "unwind"
    /\ guards[t] # << >>
    /\ LET r == unwind_guard(Release(heap, Top(t).installed), SOURCE, t, Top(t))
       IN  /\ heap' = r.heap
           /\ SOURCE' = r.SOURCE
    /\ guards' = [guards EXCEPT ![t] = SubSeq(@, 1, Len(@) - 1)]
    /\ mode' = IF Len(guards[t]) = 1 THEN [mode EXCEPT ![t] = "run"] ELSE mode
    /\ ret' = IF Len(guards[t]) = 1 THEN [ret EXCEPT ![t] = "panic"] ELSE ret
    /\ UNCHANGED <<V, s, res, auxVars, ioVars>>

\* The operation of an enclosing with_source call catches the panic of a
\* nested call.
CatchUnwind(t) ==
    /\ mode[t] = "unwind"
    /\ guards[t] # << >>
    /\ mode' = [mode EXCEPT ![t] = "run"]
    /\ ret' = [ret EXCEPT ![t] = "panic"]
    /\ UNCHANGED <<heap, SOURCE, V, s, res, guards, auxVars, ioVars>>

\* The string tokens serde_json can lend out of document d: a JSON string
\* sits between its two quotes, so a borrowed token starts after d's first
\* byte and ends before d's last.
BorrowedTokens(d) ==
    {c \in StrsOf(d.slot, d.start + d.len) :
        c.off >= d.start + 1 /\ c.off + c.len <= d.start + d.len - 1}

\* The decoder running on thread t.
Decoding(t) ==
    /\ InOperation(t)
    /\ guards[t] # << >>
    /\ Top(t).kind = "decode"
    /\ res = NoRes

\* Record the visitor's result r for the token c on thread t.
Visited(t, name, c, r) ==
    /\ s' = c
    /\ res' = [r[1] EXCEPT !.op = name, !.thread = t]
    /\ heap' = r[2]
    /\ mode' = IF r[1].panic THEN [mode EXCEPT ![t] = "unwind"] ELSE mode
    /\ UNCHANGED <<SOURCE, V, guards, ret, auxVars, ioVars>>

\* The decoder hands the visitor a string borrowed verbatim from the input.
VisitBorrowedStr(t) ==
    /\ Decoding(t)
    /\ \E c \in BorrowedTokens(Top(t).installed), b \in FreeSlots(heap) :
         Visited(t, "visit_borrowed_str", c, visit_borrowed_str(heap, SOURCE[t], c, b))

\* The decoder hands the visitor a string it unescaped into its scratch space.
VisitStr(t) ==
    /\ Decoding(t)
    /\ \E c \in StrsOf(2, Len(ForeignText)), b \in FreeSlots(heap) :
         Visited(t, "visit_str", c, visit_str(heap, SOURCE[t], c, b))

\* The decoder hands the visitor an owned String.
VisitString(t) ==
    /\ Decoding(t)
    /\ \E c \in StrsOf(2, Len(ForeignText)), b \in FreeSlots(heap) :
         Visited(t, "visit_string", c, visit_string(heap, SOURCE[t], c, b))

\* The thread that calls with_source; the other threads stay idle here.
Main == 1

\* As GuardInit, with the scratch space as the only candidate until the
\* decoder produces tokens.
WithInit ==
    /\ heap = [b \in Slots |->
                 IF b = 1 THEN [live |-> TRUE, text |-> RootText, rc |-> 1]
                 ELSE IF b = 2 THEN [live |-> TRUE, text |-> ForeignText, rc |-> 1]
                 ELSE FreeSlot]
    /\ SOURCE = [t \in Threads |-> None]
    /\ V = View(1, 0, MaxLen)
    /\ s = Str(2, 0, Len(ForeignText))
    /\ res = NoRes
    /\ guards = NoGuards
    /\ mode = Running
    /\ ret = NoRet
    /\ regs = NoRegs
    /\ det = NoDet
    /\ iter = NoIter
    /\ yielded = 0
    /\ stream = NoStream
    /\ req = NoReq
    /\ rd = NoRd

WithNext ==
    \/ WithSourceEnter(Main)
    \/ OpReturn(Main)
    \/ OpPanic(Main)
    \/ WithSourceExit(Main)
    \/ Unwind(Main)
    \/ CatchUnwind(Main)
    \/ VisitBorrowedStr(Main)
    \/ VisitStr(Main)
    \/ VisitString(Main)
    \/ DropResult

SpecWith == WithInit /\ [][WithNext]_vars

\* C6: every exit of a with_source call, by return of a success or failure
\* value or by unwinding, leaves SOURCE at the value it had when the call was
\* entered, however many calls were nested inside; a returning call hands back
\* the operation's outcome; with no call in progress SOURCE is empty again.
C6_WithSourceRestores ==
    /\ [][\A t \in Threads :
            (WithSourceExit(t) \/ Unwind(t)) => SOURCE'[t] = Top(t).prev]_vars
    /\ [][\A t \in Threads :
            WithSourceExit(t) => ret'[t] = Top(t).outcome /\ ret'[t] \in {"ok", "err"}]_vars
    /\ [](\A t \in Threads : guards[t] = << >> => SOURCE[t] = None)

\* C6 witness: a panic has unwound every with_source frame of a thread and
\* was caught, and the thread's SOURCE is empty as before the calls.
C6_Witness ==
    \E t \in Threads :
        /\ ret[t] = "panic"
        /\ mode[t] = "run"
        /\ guards[t] = << >>
        /\ SOURCE[t] = None

\* C8: while serde_json_from_zcstring(doc) decodes, a string reported as
\* borrowed from the input becomes a view of doc's buffer at the token's
\* offset, and a string reported as freshly constructed (visit_str,
\* visit_string) becomes a view of a newly allocated buffer, never doc's.
C8_BridgeDispatch ==
    [][\A t \in Threads :
         /\ VisitBorrowedStr(t) =>
               /\ ~res'.panic
               /\ ZeroCopyOf(Top(t).installed, s', res'.view)
               /\ as_str(heap', res'.view) = str_text(heap', s')
         /\ (VisitStr(t) \/ VisitString(t)) =>
               /\ ~res'.panic
               /\ ~heap[res'.view.slot].live
               /\ FreshCopyOf(heap', Top(t).installed, s', res'.view)]_vars

\* C8 witness: inside a decode nested in another call, a non-empty borrowed
\* token has been turned into a view of the document's buffer.
C8_Witness ==
    \E t \in Threads :
        /\ Len(guards[t]) = 2
        /\ Top(t).kind = "decode"
        /\ Top(t).installed # guards[t][1].installed
        /\ res.op = "visit_borrowed_str"
        /\ res.thread = t
        /\ res.view.len > 0
        /\ res.view.slot = Top(t).installed.slot

\* -------------------------------------------------- detach specification ---
\* Register 1 holds a view of the whole root buffer, its only reference.
DetachInit ==
    /\ heap = [b \in Slots |->
                 IF b = 1 THEN [live |-> TRUE, text |-> RootText, rc |-> 1]
                 ELSE FreeSlot]
    /\ SOURCE = [t \in Threads |-> None]
    /\ V = View(1, 0, MaxLen)
    /\ s = Str(1, 0, MaxLen)
    /\ res = NoRes
    /\ guards = NoGuards
    /\ mode = Running
    /\ ret = NoRet
    /\ regs = [r \in Regs |-> IF r = 1 THEN View(1, 0, MaxLen) ELSE None]
    /\ det = NoDet
    /\ iter = NoIter
    /\ yielded = 0
    /\ stream = NoStream
    /\ req = NoReq
    /\ rd = NoRd

\* let r2 = r.substr(lo..hi); a range that reaches past the view panics and
\* leaves nothing behind.
SubstrView(r, r2) ==
    /\ regs[r] # None
    /\ regs[r2] = None
    /\ \E lo \in 0..MaxLen, hi \in 0..MaxLen :
         LET x == substr(heap, regs[r], lo, hi)
         IN  /\ ~x[1].panic
             /\ regs' = [regs EXCEPT ![r2] = x[1].view]
             /\ heap' = x[2]
    /\ UNCHANGED <<SOURCE, V, s, res, ctlVars, det, iter, yielded, ioVars>>

\* let r2 = r.clone()
CloneView(r, r2) ==
    /\ regs[r] # None
    /\ regs[r2] = None
    /\ regs' = [regs EXCEPT ![r2] = regs[r]]
    /\ heap' = Retain(heap, regs[r])
    /\ UNCHANGED <<SOURCE, V, s, res, ctlVars, det, iter, yielded, ioVars>>

\* let r2 = r.detach(); the first detach is remembered with the text the
\* view had when it was made.
DetachView(r, r2) ==
    /\ regs[r] # None
    /\ regs[r2] = None
    /\ \E b \in FreeSlots(heap) :
         LET x == detach(heap, regs[r], b)
         IN  /\ regs' = [regs EXCEPT ![r2] = x[1].view]
             /\ heap' = x[2]
             /\ det' = IF det = NoDet
                       THEN [reg |-> r2, src |-> regs[r], view |-> x[1].view,
                             text |-> as_str(heap, regs[r])]
                       ELSE det
    /\ UNCHANGED <<SOURCE, V, s, res, ctlVars, iter, yielded, ioVars>>

\* drop(r)
DropView(r) ==
    /\ regs[r] # None
    /\ regs' = [regs EXCEPT ![r] = None]
    /\ heap' = Release(heap, regs[r])
    /\ det' = IF det.reg = r THEN NoDet ELSE det
    /\ UNCHANGED <<SOURCE, V, s, res, ctlVars, iter, yielded, ioVars>>

DetachNext ==
    \/ \E r, r2 \in Regs : SubstrView(r, r2)
    \/ \E r, r2 \in Regs : CloneView(r, r2)
    \/ \E r, r2 \in Regs : DetachView(r, r2)
    \/ \E r \in Regs : DropView(r)

SpecDetach == DetachInit /\ [][DetachNext]_vars

\* C9: a detached view has the text its source had, in a buffer that is not
\* the source's; it keeps that text, in a live buffer, whatever happens to
\* the views of the source's buffer, their all being dropped and the buffer
\* deallocated included.
C9_DetachIsolation ==
    det # NoDet =>
        /\ regs[det.reg] = det.view
        /\ det.view.slot # det.src.slot
        /\ heap[det.view.slot].live
        /\ as_str(heap, det.view) = det.text

\* C9 witness: a non-empty sub-view was detached and afterwards the buffer it
\* came from was deallocated.
C9_Witness ==
    /\ det # NoDet
    /\ det.text # << >>
    /\ det.src.len < MaxLen
    /\ ~heap[det.src.slot].live

\* ------------------------------------------------ iterator specification ---
\* The fragments a str iterator over V's text (split, lines, trim ...) can
\* hand out: string slices of V's own text.
FragmentsOf(v) ==
    {c \in StrsOf(v.slot, v.start + v.len) : c.off >= v.start}

RECURSIVE SeqsUpTo(_, _)
SeqsUpTo(S, n) ==
    IF n = 0 THEN {<< >>}
    ELSE SeqsUpTo(S, n - 1) \cup
         {Append(q, x) : q \in {p \in SeqsUpTo(S, n - 1) : Len(p) = n - 1}, x \in S}

\* V is any view of the root buffer, held next to the buffer's owner.
IterInit ==
    /\ heap = [b \in Slots |->
                 IF b = 1 THEN [live |-> TRUE, text |-> RootText, rc |-> 2]
                 ELSE FreeSlot]
    /\ SOURCE = [t \in Threads |-> None]
    /\ V \in ViewsOf(1, MaxLen)
    /\ s = Str(1, 0, 0)
    /\ res = NoRes
    /\ guards = NoGuards
    /\ mode = Running
    /\ ret = NoRet
    /\ regs = NoRegs
    /\ det = NoDet
    /\ iter = NoIter
    /\ yielded = 0
    /\ stream = NoStream
    /\ req = NoReq
    /\ rd = NoRd

\* let it = V.wrap_iter(f): source is a clone of V, inner is f(V.as_str()),
\* here the fragments it will produce, in order.  Items of an earlier
\* iterator have been let go of.
WrapIter ==
    /\ iter = NoIter
    /\ res = NoRes
    /\ \E fr \in SeqsUpTo(FragmentsOf(V), MaxFrags) :
         iter' = [source |-> V, frags |-> fr, pos |-> 0]
    /\ heap' = Retain(heap, V)
    /\ UNCHANGED <<SOURCE, V, s, res, ctlVars, regs, det, yielded, ioVars>>

\* it.next(): inner.next().map(|slice| source.from_substr(slice)).  The
\* caller has let go of the item before.
IterNext ==
    /\ iter # NoIter
    /\ res = NoRes
    /\ IF iter.pos < Len(iter.frags)
       THEN \E b \in FreeSlots(heap) :
              LET slice == iter.frags[iter.pos + 1]
                  r == from_substr(heap, iter.source, slice, b)
              IN  /\ s' = slice
                  /\ res' = [r[1] EXCEPT !.op = "next"]
                  /\ heap' = r[2]
                  /\ iter' = [iter EXCEPT !.pos = @ + 1]
                  /\ yielded' = IF r[1].panic THEN yielded ELSE yielded + 1
       ELSE /\ res' = [NoRes EXCEPT !.op = "next"]
            /\ UNCHANGED <<heap, s, iter, yielded, ioVars>>
    /\ UNCHANGED <<SOURCE, V, ctlVars, regs, det, ioVars>>

\* drop(it)
DropIter ==
    /\ iter # NoIter
    /\ heap' = Release(heap, iter.source)
    /\ iter' = NoIter
    /\ yielded' = 0
    /\ UNCHANGED <<SOURCE, V, s, res, ctlVars, regs, det, ioVars>>

IterNextStep ==
    \/ WrapIter
    \/ IterNext
    \/ DropIter
    \/ DropResult

SpecIter == IterInit /\ [][IterNextStep]_vars

\* C10: the wrapper yields one view per fragment, in the producer's order,
\* each with the fragment's text and each a view of V's buffer at the
\* fragment's offset (empty fragments and the empty fragment at V's end
\* included), and nothing once the producer is exhausted.
C10_IterZeroCopy ==
    /\ iter # NoIter => yielded = iter.pos /\ yielded <= Len(iter.frags)
    /\ (iter # NoIter /\ res.op = "next" /\ res.ok) =>
          /\ s = iter.frags[iter.pos]
          /\ as_str(heap, res.view) = str_text(heap, s)
          /\ ZeroCopyOf(V, s, res.view)
    /\ (iter # NoIter /\ res.op = "next" /\ ~res.ok) =>
          ~res.panic /\ iter.pos = Len(iter.frags)

\* ------------------------------------------------------- stream reading ---
\* The bytes a stream can hold: text bytes, and "x", a byte that is not
\* valid UTF-8.  "0" is the zero byte ArcStr::init_with fills a new buffer
\* with.
StreamBytes == Bytes \cup {"x"}

RECURSIVE StreamsOfLen(_)
StreamsOfLen(n) ==
    IF n = 0 THEN {<< >>}
    ELSE {Append(t, c) : t \in StreamsOfLen(n - 1), c \in StreamBytes}

\* The I/O call of read_range / read that fails, if any.
IoFaults == {"none", "stream_position", "seek_end", "seek_start", "read_exact"}

\* std::str::from_utf8 on the filled buffer.
valid_utf8(buf) == \A i \in 1..Len(buf) : buf[i] # "x"

Min(a, b) == IF a <= b THEN a ELSE b

\* *p + 1 on a u64.  At u64::MAX the addition overflows: a build without
\* overflow checks wraps to 0, a build with them panics (-1).
add_one(p, wrap) ==
    IF p = MaxPos THEN (IF wrap THEN 0 ELSE -1) ELSE p + 1

\* Read::read_exact(buffer) for a buffer of n zero bytes at position pos of
\* data.  It succeeds when n bytes are there and the read does not fail;
\* otherwise it is an error (UnexpectedEof or the injected failure) and the
\* buffer holds the k bytes read so far in front of the zeroes.
read_exact(data, pos, n, fail, k) ==
    LET avail == IF Len(data) >= pos THEN Len(data) - pos ELSE 0
        good == ~fail /\ avail >= n
        got == IF good THEN n
               ELSE IF avail >= n THEN Min(k, n - 1) ELSE Min(k, avail)
    IN  [ok |-> good,
         buf |-> [i \in 1..n |-> IF i <= got THEN data[pos + i] ELSE "0"],
         pos |-> pos + got,
         got |-> got]

\* The outcome of a read call: kind is "ok", "InvalidRange", "Io", "Utf8" or
\* "panic"; failed tells whether an I/O call of the stream returned an error;
\* yields <<outcome, heap, stream>>.
ReadOutcome(kind, failed, v, got, h, st) ==
    <<[kind |-> kind, failed |-> failed, view |-> v, consumed |-> got], h, st>>

\* ArcStr::init_with(n, |buffer| io_error = read ...)? followed by the match
\* on io_error: the buffer is validated as UTF-8 first, so an encoding error
\* is returned before io_error is looked at.  seek_ok: did the seek inside
\* the closure succeed; b: the slot of the new buffer.
init_with_read(h, st, n, seek_ok, fail, k, b) ==
    LET r == IF seek_ok THEN read_exact(st.data, st.pos, n, fail, k)
             ELSE [ok |-> FALSE, buf |-> [i \in 1..n |-> "0"], pos |-> st.pos, got |-> 0]
        st2 == [st EXCEPT !.pos = r.pos]
    IN  IF ~valid_utf8(r.buf) THEN ReadOutcome("Utf8", ~r.ok, None, r.got, h, st2)
        ELSE IF ~r.ok THEN ReadOutcome("Io", TRUE, None, r.got, h, st2)
        ELSE ReadOutcome("ok", FALSE, View(b, 0, n), r.got, Alloc(h, b, r.buf), st2)

\* ZCString::read_range(input, range).  io: the I/O call that fails; k: bytes
\* a failing read_exact has filled; wrap: does u64 overflow wrap; b: the slot
\* of the new buffer.  start_pos and end_pos are -1 for an overflow panic and
\* -2 for a failed stream_position / seek.  The empty ZCString::new() of the
\* start_pos == end_pos case is shown as an empty buffer of its own.
read_range(h, st, rq, io, k, wrap, b) ==
    LET start_pos ==
            IF rq.sb.kind = "Included" THEN rq.sb.pos
            ELSE IF rq.sb.kind = "Excluded" THEN add_one(rq.sb.pos, wrap)
            ELSE IF io = "stream_position" THEN -2 ELSE st.pos
        end_pos ==
            IF rq.eb.kind = "Included" THEN add_one(rq.eb.pos, wrap)
            ELSE IF rq.eb.kind = "Excluded" THEN rq.eb.pos
            ELSE IF io = "seek_end" THEN -2 ELSE Len(st.data)
        st1 == IF rq.eb.kind = "Unbounded" /\ end_pos >= 0
               THEN [st EXCEPT !.pos = Len(st.data)] ELSE st
    IN  IF start_pos = -1 THEN ReadOutcome("panic", FALSE, None, 0, h, st)
        ELSE IF start_pos = -2 THEN ReadOutcome("Io", TRUE, None, 0, h, st)
        ELSE IF end_pos = -1 THEN ReadOutcome("panic", FALSE, None, 0, h, st)
        ELSE IF end_pos = -2 THEN ReadOutcome("Io", TRUE, None, 0, h, st)
        ELSE IF start_pos > end_pos THEN ReadOutcome("InvalidRange", FALSE, None, 0, h, st1)
        ELSE IF start_pos = end_pos
             THEN ReadOutcome("ok", FALSE, View(b, 0, 0), 0, Alloc(h, b, << >>), st1)
        ELSE init_with_read(h,
                            IF io = "seek_start" THEN st1 ELSE [st1 EXCEPT !.pos = start_pos],
                            end_pos - start_pos, io # "seek_start", io = "read_exact", k, b)

\* ZCString::read(input, bytes)
read(h, st, n, io, k, b) ==
    init_with_read(h, st, n, TRUE, io = "read_exact" /\ n > 0, k, b)

\* ---------------------------------------------------- read specification ---
Bounds == {Bound(k, p) : k \in {"Included", "Excluded"}, p \in 0..MaxPos}
              \cup {Unbounded}

\* The bounds of the requested range as positions, without the width of u64:
\* the first position of the range and the position after its last.
NormStart(rq, st) ==
    IF rq.sb.kind = "Included" THEN rq.sb.pos
    ELSE IF rq.sb.kind = "Excluded" THEN rq.sb.pos + 1
    ELSE st.pos
NormEnd(rq, st) ==
    IF rq.eb.kind = "Included" THEN rq.eb.pos + 1
    ELSE IF rq.eb.kind = "Excluded" THEN rq.eb.pos
    ELSE Len(st.data)

\* Any stream of up to MaxLen bytes at any position, any requested range.
ReadInit ==
    /\ heap = [b \in Slots |-> FreeSlot]
    /\ SOURCE = [t \in Threads |-> None]
    /\ V = None
    /\ s = Str(0, 0, 0)
    /\ res = NoRes
    /\ guards = NoGuards
    /\ mode = Running
    /\ ret = NoRet
    /\ regs = NoRegs
    /\ det = NoDet
    /\ iter = NoIter
    /\ yielded = 0
    /\ \E n \in 0..MaxLen : \E d \in StreamsOfLen(n) : \E p \in 0..n :
         stream = [data |-> d, pos |-> p]
    /\ req \in [sb : Bounds, eb : Bounds]
    /\ rd = NoRd

\* Record the outcome x of call op; nstart and nend are the range it was
\* asked for.
ReadDone(op, x, io, ns, ne) ==
    /\ rd' = [op |-> op, kind |-> x[1].kind, failed |-> x[1].failed,
              view |-> x[1].view,
              consumed |-> x[1].consumed, io |-> io, nstart |-> ns, nend |-> ne]
    /\ heap' = x[2]
    /\ stream' = x[3]
    /\ UNCHANGED <<SOURCE, V, s, res, ctlVars, auxVars, req>>

\* ZCString::read_range(&mut stream, req)
ReadRange ==
    /\ rd = NoRd
    /\ \E io \in IoFaults, k \in 0..MaxLen, wrap \in BOOLEAN, b \in FreeSlots(heap) :
         ReadDone("read_range", read_range(heap, stream, req, io, k, wrap, b), io,
                  NormStart(req, stream), NormEnd(req, stream))

\* ZCString::read(&mut stream, n)
Read ==
    /\ rd = NoRd
    /\ \E n \in 0..MaxLen, io \in {"none", "read_exact"}, k \in 0..MaxLen,
          b \in FreeSlots(heap) :
         ReadDone("read", read(heap, stream, n, io, k, b), io,
                  stream.pos, stream.pos + n)

ReadNext ==
    \/ ReadRange
    \/ Read

SpecRead == ReadInit /\ [][ReadNext]_vars

\* C11: read_range asked for a range whose start lies past its end (bounds at
\* the largest position included), with no I/O failure, returns InvalidRange
\* and no view; asked for one whose start equals its end, it returns an empty
\* view and reads nothing.
C11_InvertedRangeRejected ==
    (rd.op = "read_range" /\ rd.io = "none") =>
        /\ rd.nstart > rd.nend => rd.kind = "InvalidRange" /\ rd.view = None
        /\ rd.nstart = rd.nend =>
              /\ rd.kind = "ok"
              /\ rd.view # None
              /\ rd.view.len = 0
              /\ rd.consumed = 0

\* C12: a successful read_range returns a view of exactly end - start bytes
\* holding the stream's bytes start..end (end being the stream's length when
\* unbounded); a range that asks for more bytes than the stream holds is a
\* failure, never a shorter view.
C12_NoTruncation ==
    rd.op = "read_range" =>
        /\ rd.kind = "ok" =>
              /\ rd.view.len = rd.nend - rd.nstart
              /\ as_str(heap, rd.view) = SubSeq(stream.data, rd.nstart + 1, rd.nend)
        /\ (rd.nstart < rd.nend /\ rd.nend > Len(stream.data)) => rd.kind # "ok"

\* C14: when a seek or read of the stream fails during read_range or read,
\* a failed read that left bytes that are not valid UTF-8 in the buffer
\* included, the call returns the I/O error: no encoding error, no view.
C14_IoErrorSurfaced ==
    (rd.op \in {"read_range", "read"} /\ rd.failed) =>
        rd.kind = "Io" /\ rd.view = None

\* ------------------------------------- guards dropped in any order ---
\* drop(g) on thread t for the i-th live guard of the thread, whichever it
\* is: SourceGuard borrows nothing, so guards can be dropped in any order.
DropGuard(t, i) ==
    /\ mode[t] = "run"
    /\ i \in 1..Len(guards[t])
    /\ LET r == drop_guard(heap, SOURCE, t, guards[t][i])
       IN  /\ heap' = r.heap
           /\ SOURCE' = r.SOURCE
    /\ guards' = [guards EXCEPT ![t] =
                    SubSeq(@, 1, i - 1) \o SubSeq(@, i + 1, Len(@))]
    /\ UNCHANGED <<V, s, res, mode, ret, auxVars, ioVars>>

AnyOrderNext ==
    \/ \E t \in Threads : GetSourceGuard(t)
    \/ \E t \in Threads : \E i \in 1..MaxDepth : DropGuard(t, i)

SpecAnyOrder == GuardInit /\ [][AnyOrderNext]_vars

\* C13: once every guard created on a thread has been dropped, in whatever
\* order, the thread's SOURCE is what it was before the first of them was
\* created (empty), and no view installed by a guard is still current.
C13_NoContextLeak ==
    \A t \in Threads : guards[t] = << >> => SOURCE[t] = None

\* ------------------------------------------------ buffer lifetimes ---
\* The length of the root buffer's text in the lifetime specification.
LifeLen == 1

\* Register 1 holds a view of the whole root buffer, its only reference;
\* nothing else is alive.
LifeInit ==
    /\ heap = [b \in Slots |->
                 IF b = 1
                 THEN [live |-> TRUE, text |-> SubSeq(RootText, 1, LifeLen), rc |-> 1]
                 ELSE FreeSlot]
    /\ SOURCE = [t \in Threads |-> None]
    /\ V = None
    /\ s = Str(0, 0, 0)
    /\ res = NoRes
    /\ guards = NoGuards
    /\ mode = Running
    /\ ret = NoRet
    /\ regs = [r \in Regs |-> IF r = 1 THEN View(1, 0, LifeLen) ELSE None]
    /\ det = NoDet
    /\ iter = NoIter
    /\ yielded = 0
    /\ stream = NoStream
    /\ req = NoReq
    /\ rd = NoRd

\* let g = regs[r].get_source_guard() on the main thread
InstallGuard(r) ==
    /\ regs[r] # None
    /\ Len(guards[Main]) < MaxDepth
    /\ LET x == get_source_guard(heap, SOURCE, Main, regs[r])
       IN  /\ heap' = x.heap
           /\ SOURCE' = x.SOURCE
           /\ guards' = [guards EXCEPT ![Main] = Append(@, x.guard)]
    /\ UNCHANGED <<V, s, res, mode, ret, auxVars, ioVars>>

\* let r2 = ZCString::from_str_without_source(&regs[r]): a view of a new
\* buffer
NewView(r, r2) ==
    /\ regs[r] # None
    /\ regs[r2] = None
    /\ \E b \in FreeSlots(heap) :
         LET x == from_str_without_source(heap, str_of(regs[r]), b)
         IN  /\ regs' = [regs EXCEPT ![r2] = x[1].view]
             /\ heap' = x[2]
    /\ UNCHANGED <<SOURCE, V, s, res, ctlVars, det, iter, yielded, ioVars>>

\* let it = regs[r].wrap_iter(f): source is a clone of the view; the
\* fragments are chosen as the iterator is advanced.
WrapIterOf(r) ==
    /\ regs[r] # None
    /\ iter = NoIter
    /\ iter' = [NoIter EXCEPT !.source = regs[r]]
    /\ heap' = Retain(heap, regs[r])
    /\ UNCHANGED <<SOURCE, V, s, res, ctlVars, regs, det, yielded, ioVars>>

\* let r2 = it.next().unwrap(): the next fragment, some slice of the
\* source's text, goes through source.from_substr; the iterator can be
\* advanced any number of times.
NextInto(r2) ==
    /\ iter.source # None
    /\ regs[r2] = None
    /\ \E slice \in FragmentsOf(iter.source), b \in FreeSlots(heap) :
         LET x == from_substr(heap, iter.source, slice, b)
         IN  /\ ~x[1].panic
             /\ regs' = [regs EXCEPT ![r2] = x[1].view]
             /\ heap' = x[2]
    /\ UNCHANGED <<SOURCE, V, s, res, ctlVars, det, iter, yielded, ioVars>>

\* drop(regs[r]).  wrap_iter borrows the view it is called on for as long as
\* the iterator lives, so one view equal to the iterator's source stays.
DropHeld(r) ==
    /\ (iter.source # None /\ regs[r] = iter.source) =>
           \E r2 \in Regs \ {r} : regs[r2] = iter.source
    /\ DropView(r)

LifeNext ==
    \/ \E r, r2 \in Regs : NewView(r, r2)
    \/ \E r, r2 \in Regs : CloneView(r, r2)
    \/ \E r, r2 \in Regs : SubstrView(r, r2)
    \/ \E r \in Regs : DropHeld(r)
    \/ \E r \in Regs : InstallGuard(r)
    \/ \E i \in 1..MaxDepth : DropGuard(Main, i)
    \/ \E r \in Regs : WrapIterOf(r)
    \/ \E r \in Regs : NextInto(r)
    \/ DropIter

SpecLife == LifeInit /\ [][LifeNext]_vars

\* The holders of buffer b: the views the program holds, the copies in
\* SOURCE, the views saved in live guards, the iterator's copy.
Count(S) == Cardinality(S)
Holders(b) ==
    Count({r \in Regs : regs[r].slot = b})
    + Count({t \in Threads : SOURCE[t].slot = b})
    + Count({x \in Threads \X (1..MaxDepth) :
                x[2] <= Len(guards[x[1]]) /\ guards[x[1]][x[2]].old_source.slot = b})
    + (IF iter.source.slot = b THEN 1 ELSE 0)

\* C15: a buffer is allocated exactly while something holds it - a view, the
\* copy in SOURCE, a guard's saved view or an iterator's copy - and its
\* reference count is the number of its holders, so it is deallocated when
\* the last holder is dropped and nothing live refers to a freed buffer.
C15_BufferLifetime ==
    \A b \in Slots :
        /\ heap[b].live <=> Holders(b) > 0
        /\ heap[b].rc = Holders(b)

\* C15 witness: every view of the root buffer has been dropped, the views
\* held are of other buffers, and the root buffer is kept allocated by the
\* copy in SOURCE and the view saved in the inner of two guards.
C15_Witness ==
    /\ \A r \in Regs : regs[r] # None /\ regs[r].slot # 1
    /\ SOURCE[Main].slot = 1
    /\ heap[1].live
    /\ heap[1].rc = 2
    /\ Len(guards[Main]) = 2

\* ---------------------------------------------------- view ranges ---
\* The views SOURCE can hold during the run: none, or any view of the root
\* buffer.
SourceViews == {None} \cup ViewsOf(1, MaxLen)

\* Register 1 holds a view of the whole root buffer; a guard created before
\* (and alive for the whole run) has installed one of SourceViews.
RangeInit ==
    /\ \E v \in SourceViews :
         /\ SOURCE = [t \in Threads |-> IF t = Main THEN v ELSE None]
         /\ guards = [t \in Threads |->
                        IF t = Main /\ v # None THEN <<Guard(None, None, v)>>
                        ELSE << >>]
         /\ heap = [b \in Slots |->
                      IF b = 1
                      THEN [live |-> TRUE, text |-> RootText,
                            rc |-> IF v = None THEN 1 ELSE 2]
                      ELSE FreeSlot]
    /\ V = None
    /\ s = Str(0, 0, 0)
    /\ res = NoRes
    /\ mode = Running
    /\ ret = NoRet
    /\ regs = [r \in Regs |-> IF r = 1 THEN View(1, 0, MaxLen) ELSE None]
    /\ det = NoDet
    /\ iter = NoIter
    /\ yielded = 0
    /\ stream = NoStream
    /\ req = NoReq
    /\ rd = NoRd

\* Any string slice of a live buffer.
Candidates == UNION {StrsOf(b, Len(heap[b].text)) : b \in Slots \ FreeSlots(heap)}

\* let r2 = <operation>: x is <<result, heap>>.  A view goes into the free
\* register r2; a panic leaves no view behind and is remembered.
Store(r2, x) ==
    /\ regs[r2] = None
    /\ heap' = x[2]
    /\ IF x[1].panic
       THEN regs' = regs /\ res' = x[1]
       ELSE regs' = [regs EXCEPT ![r2] = x[1].view] /\ res' = NoRes
    /\ UNCHANGED <<SOURCE, V, s, ctlVars, det, iter, yielded, ioVars>>

\* let r2 = regs[r].substr(lo..hi), any range
SubstrAny(r, r2) ==
    /\ regs[r] # None
    /\ \E lo \in 0..MaxLen, hi \in 0..MaxLen :
         Store(r2, substr(heap, regs[r], lo, hi))

\* let r2 = regs[r].from_substr(c), any candidate
FromSubstrAny(r, r2) ==
    /\ regs[r] # None
    /\ \E c \in Candidates, b \in FreeSlots(heap) :
         Store(r2, from_substr(heap, regs[r], c, b))

\* let r2 = ZCString::from_str_with_source(c), any candidate
FromStrWithSourceAny(r2) ==
    \E c \in Candidates, b \in FreeSlots(heap) :
        Store(r2, from_str_with_source(heap, SOURCE[Main], c, b))

\* let r2 = regs[r].map(f): self.from_substr(f(self)); f is handed the
\* view's text and returns a slice of it.
MapAny(r, r2) ==
    /\ regs[r] # None
    /\ \E c \in FragmentsOf(regs[r]), b \in FreeSlots(heap) :
         Store(r2, from_substr(heap, regs[r], c, b))

\* let r2 = regs[r].detach()
DetachAny(r, r2) ==
    /\ regs[r] # None
    /\ \E b \in FreeSlots(heap) : Store(r2, detach(heap, regs[r], b))

RangeNext ==
    \/ \E r, r2 \in Regs : SubstrAny(r, r2)
    \/ \E r, r2 \in Regs : FromSubstrAny(r, r2)
    \/ \E r \in Regs : FromStrWithSourceAny(r)
    \/ \E r, r2 \in Regs : MapAny(r, r2)
    \/ \E r, r2 \in Regs : DetachAny(r, r2)
    \/ \E r \in Regs : WrapIterOf(r)
    \/ \E r \in Regs : NextInto(r)
    \/ DropIter
    \/ \E r \in Regs : DropHeld(r)

SpecRange == RangeInit /\ [][RangeNext]_vars

\* v is a view of a live buffer whose range lies inside the buffer's text.
InRange(v) ==
    /\ heap[v.slot].live
    /\ v.start >= 0
    /\ v.start + v.len <= Len(heap[v.slot].text)

\* Every view there is: held by the program, installed in SOURCE, saved in
\* a guard, kept by the iterator.
AllViews ==
    ({regs[r] : r \in Regs} \cup {SOURCE[t] : t \in Threads}
       \cup {guards[x[1]][x[2]].old_source :
               x \in {y \in Threads \X (1..MaxDepth) : y[2] <= Len(guards[y[1]])}}
       \cup {iter.source, res.view}) \ {None}

\* C16: every view that exists after any sequence of construction, substr,
\* from_substr, from_str_with_source, map, detach and wrap_iter operations
\* has start + length <= the length of its buffer; an operation given a
\* range or a candidate that does not fit panics and leaves no view.
C16_ViewInRange ==
    /\ \A v \in AllViews : InRange(v)
    /\ res.panic => res.view = None

\* C16 witness: an operation was given a range or candidate reaching past
\* the view and panicked, while a sub-view ending exactly at the end of its
\* buffer and the view of a second buffer exist.
C16_Witness ==
    /\ res.panic
    /\ \E r, r2 \in Regs :
         /\ regs[r] # None /\ regs[r].start > 0 /\ regs[r].len > 0
         /\ regs[r].start + regs[r].len = Len(heap[regs[r].slot].text)
         /\ regs[r2] # None /\ regs[r2].slot # regs[r].slot

====
